---- MODULE Spec2Model ----
(***************************************************************************)
(* Raw Mesh and Packed/Optimized Mesh of the ink stroke geometry core      *)
(* (src/engine/geometry/mesh/mesh.cc) as a state machine.                  *)
(*                                                                         *)
(* Numbers: positions and matrix entries are floats in the source.  They   *)
(* are modelled as exact rationals <<numerator, denominator>>; the inputs  *)
(* are small integers and power-of-two scales, on which float arithmetic   *)
(* is exact too.  Indices keep their width (uint32 / uint16).              *)
(***************************************************************************)
EXTENDS Integers, Sequences, FiniteSets, TLC

(***************************************************************************)
(* Bounds of the model.                                                    *)
(***************************************************************************)
\* Largest vertex count of an input Raw Mesh.
MaxVerts == 3
\* Largest vertex count of the mesh passed to Append.
MaxOtherVerts == 2
\* Number of operations applied in one run.
MaxOps == 3
\* How far below and above kMax16 the vertex counts of the wide source
\* meshes go.
WideSpan == 1

(***************************************************************************)
(* Exact rational arithmetic (the float arithmetic of glm on the inputs).  *)
(***************************************************************************)
RECURSIVE GCD(_, _)
GCD(a, b) == IF b = 0 THEN a ELSE GCD(b, a % b)

Abs(x) == IF x < 0 THEN -x ELSE x

\* The rational n/d in lowest terms with a positive denominator.
Rat(n, d) ==
    LET g == GCD(Abs(n), Abs(d))
        s == IF d < 0 THEN -1 ELSE 1
    IN <<(s * n) \div g, (s * d) \div g>>

RInt(n) == <<n, 1>>
RAdd(p, q) == Rat(p[1] * q[2] + q[1] * p[2], p[2] * q[2])
RSub(p, q) == Rat(p[1] * q[2] - q[1] * p[2], p[2] * q[2])
RMul(p, q) == Rat(p[1] * q[1], p[2] * q[2])
RDiv(p, q) == Rat(p[1] * q[2], p[2] * q[1])
RLess(p, q) == p[1] * q[2] < q[1] * p[2]
RMin(p, q) == IF RLess(q, p) THEN q ELSE p
RMax(p, q) == IF RLess(p, q) THEN q ELSE p

\* A point with integer coordinates.
Pt(x, y) == <<RInt(x), RInt(y)>>

(***************************************************************************)
(* Matrices: the object matrices of the model are axis-aligned scales      *)
(* followed by a translation, x' = sx*x + tx, y' = sy*y + ty.              *)
(***************************************************************************)
Mat(sx, sy, tx, ty) == [sx |-> sx, sy |-> sy, tx |-> tx, ty |-> ty]

IdentityMatrix == Mat(RInt(1), RInt(1), RInt(0), RInt(0))

\* glm::inverse
MatInverse(m) ==
    Mat(RDiv(RInt(1), m.sx), RDiv(RInt(1), m.sy),
        RSub(RInt(0), RDiv(m.tx, m.sx)), RSub(RInt(0), RDiv(m.ty, m.sy)))

\* glm operator*: (a * b) applies b first, then a.
MatMul(a, b) ==
    Mat(RMul(a.sx, b.sx), RMul(a.sy, b.sy),
        RAdd(RMul(a.sx, b.tx), a.tx), RAdd(RMul(a.sy, b.ty), a.ty))

\* geometry::Transform of a position.
Transform(p, m) ==
    <<RAdd(RMul(m.sx, p[1]), m.tx), RAdd(RMul(m.sy, p[2]), m.ty)>>

\* Twice geometry::Triangle::SignedArea of the triangle (a, b, c): positive
\* for a counter-clockwise triangle.
SignedArea2(a, b, c) ==
    RSub(RMul(RSub(b[1], a[1]), RSub(c[2], a[2])),
         RMul(RSub(b[2], a[2]), RSub(c[1], a[1])))

Negative(r) == r[1] < 0

(***************************************************************************)
(* Integer widths.                                                         *)
(***************************************************************************)
\* 2^16: a uint16 holds i % Pow16.  The uint32 indices of the model stay far
\* below 2^32 (a mesh has at most a few times 2^16 vertices), so they are
\* kept as naturals.
Pow16 == 65536
\* std::numeric_limits<uint16_t>::max()
kMax16 == 65535

ToUint16(i) == i % Pow16

\* A std::vector built element by element: a sequence.
Vec(f) == f \o <<>>

(***************************************************************************)
(* Vertices and Raw Meshes.  A Vertex is a position and an RGBA colour; a  *)
(* Raw Mesh is its vertices, its indices (uint32), its object matrix and   *)
(* its optional texture.                                                   *)
(***************************************************************************)
NoTexture == "none"

\* Mesh::Mesh()
EmptyMesh ==
    [verts |-> <<>>, idx |-> <<>>, object_matrix |-> IdentityMatrix,
     texture |-> NoTexture]

\* The positions of a vertex sequence, by index.
Positions(verts) == Vec([i \in 1..Len(verts) |-> verts[i].position])

\* Mesh::Clear
ClearOp(m) == [m EXCEPT !.verts = <<>>, !.idx = <<>>]

\* Mutant of AppendPrecondition: the emptiness of the vertex sequences is
\* not looked at.
AppendPreconditionNoVertsCheck(m, o) == (o.idx = <<>>) = (m.idx = <<>>)

\* The ASSERT of Mesh::Append.
AppendPrecondition(m, o) ==
    \/ o.verts = <<>>
    \/ m.verts = <<>>
    \/ (o.idx = <<>>) = (m.idx = <<>>)

\* Mutant of AppendOp: startidx is taken after the vertices were appended.
AppendOpLateStart(m, o) ==
    LET startidx == Len(m.verts) + Len(o.verts)
        t == MatMul(MatInverse(m.object_matrix), o.object_matrix)
    IN [m EXCEPT
          !.verts = m.verts \o
              Vec([i \in 1..Len(o.verts) |->
                    [o.verts[i] EXCEPT !.position = Transform(@, t)]]),
          !.idx = m.idx \o
              Vec([j \in 1..Len(o.idx) |-> o.idx[j] + startidx])]

\* Mesh::Append past its ASSERT.
AppendOp(m, o) ==
    LET startidx == Len(m.verts)
        t == MatMul(MatInverse(m.object_matrix), o.object_matrix)
    IN [m EXCEPT
          !.verts = m.verts \o
              Vec([i \in 1..Len(o.verts) |->
                    [o.verts[i] EXCEPT !.position = Transform(@, t)]]),
          !.idx = m.idx \o
              Vec([j \in 1..Len(o.idx) |-> o.idx[j] + startidx])]

\* Mutant of DeindexOp: no early return for an unindexed mesh.
DeindexOpNoEarlyReturn(m) ==
    [m EXCEPT
       !.verts = Vec([i \in 1..Len(m.idx) |-> m.verts[m.idx[i] + 1]]),
       !.idx = <<>>]

\* Mesh::Deindex
DeindexOp(m) ==
    IF m.idx = <<>> THEN m
    ELSE [m EXCEPT
            !.verts = Vec([i \in 1..Len(m.idx) |-> m.verts[m.idx[i] + 1]]),
            !.idx = <<>>]

\* Mutant of GenIndexOp: std::iota from 1.
GenIndexOpFromOne(m) ==
    [m EXCEPT !.idx = Vec([i \in 1..Len(m.verts) |-> i])]

\* Mesh::GenIndex: resize to verts.size(), then std::iota from 0.
GenIndexOp(m) ==
    [m EXCEPT !.idx = Vec([i \in 1..Len(m.verts) |-> i - 1])]

\* The ASSERT of NormalizeTriangleHelper.
NormalizePrecondition(indices) == Len(indices) % 3 = 0

\* Mutant of NormalizeTriangleHelper: the first and second index of a
\* negative triangle are exchanged.
NormalizeTriangleHelperSwapFirst(positions, indices) ==
    Vec([k \in 1..Len(indices) |->
        LET b == 3 * ((k - 1) \div 3)
            r == (k - 1) % 3
            neg == Negative(SignedArea2(positions[indices[b + 1] + 1],
                                        positions[indices[b + 2] + 1],
                                        positions[indices[b + 3] + 1]))
        IN IF neg /\ r = 0 THEN indices[b + 2]
           ELSE IF neg /\ r = 1 THEN indices[b + 1]
           ELSE indices[k]])

\* NormalizeTriangleHelper past its ASSERT: positions[i + 1] is what
\* position_getter returns for index i.  A triangle of negative signed area
\* has its second and third index exchanged.
NormalizeTriangleHelper(positions, indices) ==
    Vec([k \in 1..Len(indices) |->
        LET b == 3 * ((k - 1) \div 3)
            r == (k - 1) % 3
            neg == Negative(SignedArea2(positions[indices[b + 1] + 1],
                                        positions[indices[b + 2] + 1],
                                        positions[indices[b + 3] + 1]))
        IN IF neg /\ r = 1 THEN indices[b + 3]
           ELSE IF neg /\ r = 2 THEN indices[b + 2]
           ELSE indices[k]])

\* Mesh::NormalizeTriangleOrientation past the ASSERT.
NormalizeTriangleOrientationOp(m) ==
    [m EXCEPT !.idx = NormalizeTriangleHelper(Positions(m.verts), m.idx)]

(***************************************************************************)
(* Inputs.                                                                 *)
(***************************************************************************)
\* The i-th input vertex (i from 0): the corners of the unit square in turn.
GridVertex(i) ==
    [position |-> Pt(i % 2, (i \div 2) % 2), color |-> <<i % 2, 0, 1, 1>>]

InputVerts(n) == Vec([i \in 1..n |-> GridVertex(i - 1)])

\* One triangle over n vertices, in every order and with every repetition.
Triangles(n) == {<<a, b, c>> : a \in 0..(n - 1), b \in 0..(n - 1), c \in 0..(n - 1)}

\* A 2x scale followed by a translation by (1, 0).
Scale2 == Mat(RInt(2), RInt(2), RInt(1), RInt(0))

Matrices == {IdentityMatrix, Scale2}

\* The Raw Meshes of at most maxv vertices: unindexed, or indexed by one
\* triangle.
InputMeshes(maxv) ==
    UNION {{[verts |-> InputVerts(n), idx |-> ix, object_matrix |-> mat,
             texture |-> NoTexture] :
               ix \in {<<>>} \cup Triangles(n), mat \in Matrices} :
           n \in 0..maxv}

\* The meshes passed to Append, of at most maxv vertices: unindexed, or
\* indexed by the triangle of their first vertices.
OtherMeshes(maxv) ==
    UNION {{[verts |-> InputVerts(n), idx |-> ix, object_matrix |-> mat,
             texture |-> NoTexture] :
               ix \in {<<>>} \cup {<<0, 1 % n, 2 % n>>}, mat \in Matrices} :
           n \in 1..maxv}
    \cup {[EmptyMesh EXCEPT !.object_matrix = mat] : mat \in Matrices}

\* Every index of m refers to a vertex of m.
IndicesInRange(m) == \A k \in 1..Len(m.idx) : m.idx[k] < Len(m.verts)

(***************************************************************************)
(* Packed vertices.  PackedVertList, geometry::Envelope and Rect are not   *)
(* among the source files under study; they are modelled from the          *)
(* specification: the quantization transform maps the envelope into the    *)
(* format's coordinate range, packing rounds each coordinate to the        *)
(* nearest integer, unpacking returns the rounded coordinates.             *)
(***************************************************************************)
Rect(from, to) == [from |-> from, to |-> to]

\* Rect(): the empty rectangle at the origin.
DefaultRect == Rect(Pt(0, 0), Pt(0, 0))

RatMin(S) == CHOOSE x \in S : \A y \in S : ~RLess(y, x)
RatMax(S) == CHOOSE x \in S : \A y \in S : ~RLess(x, y)

\* geometry::Envelope: the bounding rectangle of the positions.
Envelope(verts) ==
    IF verts = <<>> THEN DefaultRect
    ELSE LET xs == {verts[i].position[1] : i \in 1..Len(verts)}
             ys == {verts[i].position[2] : i \in 1..Len(verts)}
         IN Rect(<<RatMin(xs), RatMin(ys)>>, <<RatMax(xs), RatMax(ys)>>)

\* Rect::Contains(Rect)
RectContains(outer, inner) ==
    /\ ~RLess(inner.from[1], outer.from[1])
    /\ ~RLess(inner.from[2], outer.from[2])
    /\ ~RLess(outer.to[1], inner.to[1])
    /\ ~RLess(outer.to[2], inner.to[2])

\* geometry::Transform of a Rect (the matrices of the model keep the axes and
\* their directions).
TransformRect(r, m) == Rect(Transform(r.from, m), Transform(r.to, m))

\* The largest coordinate a format represents: 2^12 - 1 or 2^11 - 1.
MaxCoord(fmt) == IF fmt = "x12y12" THEN 4095 ELSE 2047

FormatHasColor(fmt) == fmt # "x12y12"

\* PackedVertList::CalcTransformForFormat: the envelope's corner goes to the
\* origin and its longer side to the coordinate range.
CalcTransformForFormat(envelope, fmt) ==
    LET w == RSub(envelope.to[1], envelope.from[1])
        h == RSub(envelope.to[2], envelope.from[2])
        d == RMax(w, h)
        scale == IF d[1] = 0 THEN RInt(1) ELSE RDiv(RInt(MaxCoord(fmt)), d)
    IN Mat(scale, scale,
           RSub(RInt(0), RMul(scale, envelope.from[1])),
           RSub(RInt(0), RMul(scale, envelope.from[2])))

\* Rounding of a non-negative coordinate to the nearest integer.
Round(r) == (2 * r[1] + r[2]) \div (2 * r[2])

\* PackedVertList::PackVerts
PackVerts(verts, m, fmt) ==
    [format |-> fmt,
     data |-> Vec([i \in 1..Len(verts) |->
        LET p == Transform(verts[i].position, m)
        IN [x |-> Round(p[1]), y |-> Round(p[2]),
            color |-> IF FormatHasColor(fmt) THEN verts[i].color
                      ELSE <<0, 0, 0, 0>>]])]

\* PackedVertList::size
PackedSize(pv) == Len(pv.data)

\* PackedVertList::Clear
PackedClear(pv) == [pv EXCEPT !.data = <<>>]

\* PackedVertList::UnpackVertex(index, &v), index from 0.
UnpackVertex(pv, index) ==
    [position |-> Pt(pv.data[index + 1].x, pv.data[index + 1].y),
     color |-> pv.data[index + 1].color]

\* The position_getter of the OptimizedMesh constructor.
UnpackedPositions(pv) ==
    Vec([i \in 1..PackedSize(pv) |-> UnpackVertex(pv, i - 1).position])

(***************************************************************************)
(* OptimizedMesh.                                                          *)
(***************************************************************************)
ShaderTypes ==
    {"ColoredVertShader", "SingleColorShader", "EraseShader",
     "TexturedVertShader", "NoShader"}

\* The shader types OptimizedMesh::VertexFormat has a case for.
HasVertexFormat(shader_type) == shader_type # "NoShader"

\* OptimizedMesh::VertexFormat
VertexFormat(shader_type) ==
    CASE shader_type = "ColoredVertShader" -> "x11a7r6y11g7b6"
      [] shader_type \in {"SingleColorShader", "EraseShader"} -> "x12y12"
      [] shader_type = "TexturedVertShader" -> "x11a7r6y11g7b6u12v12"
      [] OTHER -> "x12y12"

\* No OptimizedMesh constructed (yet).
NoOptimizedMesh == [type |-> "none"]

\* Mutant of Use16BitIndex: kMax16 itself still gets 16-bit indices.
Use16BitIndexInclusive(n_verts) == n_verts <= kMax16

\* The index width test of the OptimizedMesh constructor.
Use16BitIndex(n_verts) == n_verts < kMax16

\* Mutant of PackedIndex: the indices are copied, the winding is left as in
\* the source.
PackedIndexNotNormalized(src, pv) ==
    IF Use16BitIndex(Len(src.verts))
    THEN [width |-> 16, v |-> Vec([k \in 1..Len(src.idx) |-> ToUint16(src.idx[k])])]
    ELSE [width |-> 32, v |-> src.idx]

\* The index variant the constructor builds: the source indices in the
\* chosen width, normalized on the unpacked positions.
PackedIndex(src, pv) ==
    IF Use16BitIndex(Len(src.verts))
    THEN [width |-> 16,
          v |-> NormalizeTriangleHelper(UnpackedPositions(pv),
                  Vec([k \in 1..Len(src.idx) |-> ToUint16(src.idx[k])]))]
    ELSE [width |-> 32,
          v |-> NormalizeTriangleHelper(UnpackedPositions(pv), src.idx)]

\* The contract checks of OptimizedMesh(type, mesh, envelope), in order:
\* "none" when all pass.
CtorFailure(type, src, envelope) ==
    IF ~(src.idx # <<>> /\ Len(src.idx) % 3 = 0) THEN "EXPECT"
    ELSE IF src.verts = <<>> THEN "EXPECT"
    ELSE IF ~RectContains(envelope, Envelope(src.verts)) THEN "ASSERT"
    ELSE IF ~HasVertexFormat(type) THEN "ASSERT"
    ELSE "none"

\* OptimizedMesh(type, mesh, envelope) past its contract checks.
OptimizedMeshOp(type, src, envelope) ==
    LET fmt == VertexFormat(type)
        m == CalcTransformForFormat(envelope, fmt)
        pv == PackVerts(src.verts, m, fmt)
    IN [type |-> type,
        verts |-> pv,
        texture |-> src.texture,
        color |-> src.verts[1].color,
        mul_color_modifier |-> <<1, 1, 1, 1>>,
        add_color_modifier |-> <<0, 0, 0, 0>>,
        mbr |-> TransformRect(Envelope(src.verts), m),
        idx_ |-> PackedIndex(src, pv),
        object_matrix |-> MatMul(src.object_matrix, MatInverse(m))]

\* OptimizedMesh(const OptimizedMesh&): mbr is not among the members copied
\* and keeps its default value.
CopyOp(o) == [o EXCEPT !.mbr = DefaultRect]

\* Mutant of ClearCpuMemoryVertsOp: the texture is dropped too.
ClearCpuMemoryVertsOpDropTexture(o) ==
    [o EXCEPT !.idx_ = [width |-> 16, v |-> <<>>],
              !.verts = PackedClear(@),
              !.texture = NoTexture]

\* OptimizedMesh::ClearCpuMemoryVerts
ClearCpuMemoryVertsOp(o) ==
    [o EXCEPT !.idx_ = [width |-> 16, v |-> <<>>],
              !.verts = PackedClear(@)]

\* Componentwise color * mul + add.
ModifyColor(c, mul, add) == Vec([i \in 1..4 |-> c[i] * mul[i] + add[i]])

\* Mutant of ToMeshOp: the indices are assigned from the 16-bit variant only.
ToMeshOpOnly16(o) ==
    [verts |-> Vec([i \in 1..PackedSize(o.verts) |->
        LET v == UnpackVertex(o.verts, i - 1)
            c == IF o.type = "SingleColorShader" THEN o.color ELSE v.color
        IN [v EXCEPT !.color =
              ModifyColor(c, o.mul_color_modifier, o.add_color_modifier)]]),
     idx |-> IF o.idx_.width = 16 THEN o.idx_.v ELSE <<>>,
     object_matrix |-> o.object_matrix,
     texture |-> o.texture]

\* OptimizedMesh::ToMesh
ToMeshOp(o) ==
    [verts |-> Vec([i \in 1..PackedSize(o.verts) |->
        LET v == UnpackVertex(o.verts, i - 1)
            c == IF o.type = "SingleColorShader" THEN o.color ELSE v.color
        IN [v EXCEPT !.color =
              ModifyColor(c, o.mul_color_modifier, o.add_color_modifier)]]),
     idx |-> o.idx_.v,
     object_matrix |-> o.object_matrix,
     texture |-> o.texture]

\* OptimizedMesh::IndexSize
IndexSizeOp(o) == Len(o.idx_.v)

\* OptimizedMesh::IndexAt past the range check of std::vector::at.
IndexAtOp(o, n) == o.idx_.v[n + 1]

\* OptimizedMesh::Index16 succeeds: the 16-bit variant is held.
Index16Succeeds(o) == o.idx_.width = 16

\* OptimizedMesh::WorldBounds
WorldBoundsOp(o) == TransformRect(o.mbr, o.object_matrix)

(***************************************************************************)
(* Inputs of the OptimizedMesh constructor.                                *)
(***************************************************************************)
\* The i-th vertex of a sliver (i from 0): points of the line y = 2x, whose
\* triangles have signed area 0 before quantization.
SliverVertex(i) ==
    [position |-> Pt(i % 3, 2 * (i % 3)), color |-> <<1, i % 2, 0, 1>>]

FamilyVerts(family, n) ==
    Vec([i \in 1..n |->
        IF family = "sliver" THEN SliverVertex(i - 1) ELSE GridVertex(i - 1)])

\* The object matrix and texture an input mesh comes with.
Placements ==
    {[object_matrix |-> IdentityMatrix, texture |-> NoTexture],
     [object_matrix |-> Scale2, texture |-> "texture://ink"]}

\* Index lists that are no whole number of triangles.
PartialTriangles == {<<0>>, <<0, 0, 0, 0>>}

\* The source meshes of at most maxv vertices: unindexed, indexed by one
\* triangle, or indexed by a list that is no whole number of triangles.
SourceMeshes(maxv) ==
    UNION {{[verts |-> FamilyVerts(family, n), idx |-> ix,
             object_matrix |-> pl.object_matrix, texture |-> pl.texture] :
               family \in {"grid", "sliver"},
               ix \in {<<>>} \cup Triangles(n) \cup PartialTriangles,
               pl \in Placements} :
           n \in 0..maxv}

\* The source meshes around the index width threshold: n vertices, two
\* triangles, over the first and over the last vertices.
WideMesh(n) ==
    [verts |-> FamilyVerts("grid", n),
     idx |-> <<0, 2, 1, n - 1, n - 2, n - 3>>,
     object_matrix |-> IdentityMatrix, texture |-> NoTexture]

WideMeshes == {WideMesh(n) : n \in (kMax16 - WideSpan)..(kMax16 + WideSpan)}

\* A rectangle grown by one on every side, and moved by one.
Grow(r) ==
    Rect(<<RSub(r.from[1], RInt(1)), RSub(r.from[2], RInt(1))>>,
         <<RAdd(r.to[1], RInt(1)), RAdd(r.to[2], RInt(1))>>)
Shift(r) ==
    Rect(<<RAdd(r.from[1], RInt(1)), r.from[2]>>,
         <<RAdd(r.to[1], RInt(1)), r.to[2]>>)

\* The envelope argument: the two-argument constructor passes the mesh's
\* own envelope.
EnvelopeArg(choice, src) ==
    CASE choice = "own" -> Envelope(src.verts)
      [] choice = "larger" -> Grow(Envelope(src.verts))
      [] choice = "moved" -> Shift(Envelope(src.verts))

CtorArgs ==
    {[type |-> t, envelope |-> e] :
        t \in ShaderTypes, e \in {"own", "larger", "moved"}}

NoArgs == [type |-> "none", envelope |-> "none"]

\* What a call returned: its kind and its value.
NoResult == [kind |-> "none"]
Result(kind, value) == [kind |-> kind, value |-> value]

VARIABLES
    mesh,      \* the Raw Mesh operated on; the source of the OptimizedMesh
    other,     \* a second Raw Mesh, the argument of Append
    args,      \* the shader type and envelope the OptimizedMesh is built with
    om,        \* the OptimizedMesh, once constructed
    ret,       \* what the last call on the OptimizedMesh returned, if anything
    failure,   \* "none", or the contract failure that ended the run
    hist       \* the operations applied, oldest first: [op, before]

vars == <<mesh, other, args, om, ret, failure, hist>>

Record(op) == Append(hist, [op |-> op, before |-> mesh])

Running == failure = "none" /\ Len(hist) < MaxOps

Init ==
    /\ mesh \in InputMeshes(MaxVerts)
    /\ other \in OtherMeshes(MaxOtherVerts)
    /\ args = NoArgs
    /\ om = NoOptimizedMesh
    /\ ret = NoResult
    /\ failure = "none"
    /\ hist = <<>>

\* mesh.Append(other)
MeshAppend ==
    /\ Running
    /\ hist' = Record("Append")
    /\ IF AppendPrecondition(mesh, other)
       THEN mesh' = AppendOp(mesh, other) /\ failure' = failure
       ELSE mesh' = mesh /\ failure' = "ASSERT"
    /\ UNCHANGED <<other, args, om, ret>>

\* mesh.Deindex()
MeshDeindex ==
    /\ Running
    /\ hist' = Record("Deindex")
    /\ mesh' = DeindexOp(mesh)
    /\ UNCHANGED <<other, args, om, ret, failure>>

\* mesh.GenIndex()
MeshGenIndex ==
    /\ Running
    /\ hist' = Record("GenIndex")
    /\ mesh' = GenIndexOp(mesh)
    /\ UNCHANGED <<other, args, om, ret, failure>>

\* mesh.NormalizeTriangleOrientation()
MeshNormalizeTriangleOrientation ==
    /\ Running
    /\ hist' = Record("NormalizeTriangleOrientation")
    /\ IF NormalizePrecondition(mesh.idx)
       THEN mesh' = NormalizeTriangleOrientationOp(mesh) /\ failure' = failure
       ELSE mesh' = mesh /\ failure' = "ASSERT"
    /\ UNCHANGED <<other, args, om, ret>>

\* mesh.Clear()
MeshClear ==
    /\ Running
    /\ hist' = Record("Clear")
    /\ mesh' = ClearOp(mesh)
    /\ UNCHANGED <<other, args, om, ret, failure>>

Next ==
    \/ MeshAppend
    \/ MeshDeindex
    \/ MeshGenIndex
    \/ MeshNormalizeTriangleOrientation
    \/ MeshClear

Spec == Init /\ [][Next]_vars

(***************************************************************************)
(* The life of an OptimizedMesh: constructed from the Raw Mesh `mesh`,     *)
(* then read, copied and cleared.                                          *)
(***************************************************************************)
\* Of the calls on the OptimizedMesh the last one is remembered, with the
\* object it was made on: runs are of any length.
RecordOpt(op) == <<[op |-> op, before |-> om]>>

Constructed == om.type # "none" /\ failure = "none"

InitOpt ==
    /\ mesh \in SourceMeshes(MaxVerts)
    /\ other = EmptyMesh
    /\ args \in CtorArgs
    /\ om = NoOptimizedMesh
    /\ ret = NoResult
    /\ failure = "none"
    /\ hist = <<>>

\* The same, with the source meshes around the index width threshold added;
\* these are packed for the single colour shader with their own envelope.
InitWide ==
    /\ \/ mesh \in SourceMeshes(MaxVerts) /\ args \in CtorArgs
       \/ /\ mesh \in WideMeshes
          /\ args = [type |-> "SingleColorShader", envelope |-> "own"]
    /\ other = EmptyMesh
    /\ om = NoOptimizedMesh
    /\ ret = NoResult
    /\ failure = "none"
    /\ hist = <<>>

\* OptimizedMesh(args.type, mesh) or OptimizedMesh(args.type, mesh, envelope).
\* The member initializer reads mesh.verts.begin()->color before any check:
\* with no vertices that read is undefined, and the construction either
\* crashes there or goes on to fail the checks.
OptimizedMeshCtor ==
    /\ om.type = "none" /\ failure = "none" /\ hist = <<>>
    /\ hist' = <<[op |-> "OptimizedMesh", before |-> om, source |-> mesh]>>
    /\ LET envelope == EnvelopeArg(args.envelope, mesh)
           f == CtorFailure(args.type, mesh, envelope)
       IN IF f = "none"
          THEN om' = OptimizedMeshOp(args.type, mesh, envelope) /\ failure' = f
          ELSE /\ om' = om
               /\ \/ failure' = f
                  \/ mesh.verts = <<>> /\ failure' = "SIGSEGV"
    /\ UNCHANGED <<mesh, other, args, ret>>

\* om.ClearCpuMemoryVerts()
ClearCpuMemoryVerts ==
    /\ Constructed
    /\ hist' = RecordOpt("ClearCpuMemoryVerts")
    /\ om' = ClearCpuMemoryVertsOp(om)
    /\ ret' = NoResult
    /\ UNCHANGED <<mesh, other, args, failure>>

\* om.ToMesh()
ToMesh ==
    /\ Constructed
    /\ hist' = RecordOpt("ToMesh")
    /\ ret' = Result("Mesh", ToMeshOp(om))
    /\ UNCHANGED <<mesh, other, args, om, failure>>

\* om.IndexSize()
IndexSize ==
    /\ Constructed
    /\ hist' = RecordOpt("IndexSize")
    /\ ret' = Result("size", IndexSizeOp(om))
    /\ UNCHANGED <<mesh, other, args, om, failure>>

\* om.IndexAt(n): std::vector::at throws std::out_of_range past the end.
IndexAt ==
    /\ Constructed
    /\ hist' = RecordOpt("IndexAt")
    /\ \E n \in 0..IndexSizeOp(om) :
          IF n < IndexSizeOp(om)
          THEN ret' = Result("index", IndexAtOp(om, n)) /\ failure' = failure
          ELSE ret' = NoResult /\ failure' = "out_of_range"
    /\ UNCHANGED <<mesh, other, args, om>>

\* om.Index16()
Index16 ==
    /\ Constructed
    /\ hist' = RecordOpt("Index16")
    /\ IF Index16Succeeds(om)
       THEN ret' = Result("uint16 vector", om.idx_.v) /\ failure' = failure
       ELSE ret' = NoResult /\ failure' = "RUNTIME_ERROR"
    /\ UNCHANGED <<mesh, other, args, om>>

\* om.WorldBounds()
WorldBounds ==
    /\ Constructed
    /\ hist' = RecordOpt("WorldBounds")
    /\ ret' = Result("Rect", WorldBoundsOp(om))
    /\ UNCHANGED <<mesh, other, args, om, failure>>

\* OptimizedMesh(om): the run goes on with the copy.
Copy ==
    /\ Constructed
    /\ hist' = RecordOpt("Copy")
    /\ om' = CopyOp(om)
    /\ ret' = NoResult
    /\ UNCHANGED <<mesh, other, args, failure>>

NextOpt ==
    \/ OptimizedMeshCtor
    \/ ClearCpuMemoryVerts
    \/ ToMesh
    \/ IndexSize
    \/ IndexAt
    \/ Index16
    \/ WorldBounds
    \/ Copy

SpecOpt == InitOpt /\ [][NextOpt]_vars

SpecWide == InitWide /\ [][NextOpt]_vars

(***************************************************************************)
(* Properties of the Raw Mesh operations, checked under Spec.              *)
(***************************************************************************)
\* The last operation applied, and the mesh it was applied to.
Last == hist[Len(hist)]
LastOp(op) == hist # <<>> /\ Last.op = op
\* The last two operations applied were op1, then op2.
LastOps(op1, op2) ==
    Len(hist) >= 2 /\ hist[Len(hist) - 1].op = op1 /\ Last.op = op2
\* The mesh the run started from.
InitialMesh == IF hist = <<>> THEN mesh ELSE hist[1].before

\* The signed area (twice) of the triangle of m whose first index is at k.
TriangleArea2(positions, indices, k) ==
    SignedArea2(positions[indices[k] + 1], positions[indices[k + 1] + 1],
                positions[indices[k + 2] + 1])

\* The first positions of the triangles of an index sequence.
TriangleStarts(indices) == {k \in 1..Len(indices) : k % 3 = 1}

\* index sequence `after` is `before` with, per triangle, the second and
\* third index kept or exchanged.
SameUpToWinding(before, after) ==
    /\ Len(after) = Len(before)
    /\ \A k \in TriangleStarts(before) :
          /\ after[k] = before[k]
          /\ \/ after[k + 1] = before[k + 1] /\ after[k + 2] = before[k + 2]
             \/ after[k + 1] = before[k + 2] /\ after[k + 2] = before[k + 1]

\* C1: after mesh.Append(other), with n vertices and k indices before the
\* call, the receiver has n + |other.verts| vertices and k + |other.idx|
\* indices, its first n vertices and first k indices are unchanged, index
\* k + j is other.idx[j] + n, and the appended vertices are other's, in order,
\* with positions mapped through inverse(receiver.object_matrix) *
\* other.object_matrix (so that their world positions are those they had in
\* other).
C1_Append ==
    (LastOp("Append") /\ failure = "none") =>
        LET b == Last.before
            n == Len(b.verts)
            k == Len(b.idx)
        IN /\ Len(mesh.verts) = n + Len(other.verts)
           /\ Len(mesh.idx) = k + Len(other.idx)
           /\ SubSeq(mesh.verts, 1, n) = b.verts
           /\ SubSeq(mesh.idx, 1, k) = b.idx
           /\ \A j \in 1..Len(other.idx) : mesh.idx[k + j] = other.idx[j] + n
           /\ \A i \in 1..Len(other.verts) :
                 /\ mesh.verts[n + i].color = other.verts[i].color
                 /\ mesh.verts[n + i].position =
                       Transform(other.verts[i].position,
                                 MatMul(MatInverse(b.object_matrix),
                                        other.object_matrix))
                 /\ Transform(mesh.verts[n + i].position, mesh.object_matrix) =
                       Transform(other.verts[i].position, other.object_matrix)
           /\ mesh.object_matrix = b.object_matrix

\* C1 witness: an indexed mesh with the identity matrix received an indexed
\* mesh of two vertices with the scaling matrix.
C1_Witness ==
    /\ LastOp("Append") /\ failure = "none"
    /\ Last.before.idx # <<>>
    /\ Last.before.object_matrix = IdentityMatrix
    /\ other.idx # <<>> /\ Len(other.verts) = 2
    /\ other.object_matrix = Scale2
    /\ mesh.verts[Len(mesh.verts)].position = Pt(3, 0)

\* The Raw Mesh invariant: indices, when present, are complete triangles over
\* existing vertices.
MeshInvariant(m) ==
    m.idx # <<>> => (Len(m.idx) % 3 = 0 /\ IndicesInRange(m))

\* C2 as stated: whatever Append, Deindex, GenIndex,
\* NormalizeTriangleOrientation and Clear calls were made on a mesh that
\* satisfied the invariant, a non-empty index sequence has a length divisible
\* by 3 and every index is below the number of vertices.
C2_Original == MeshInvariant(mesh)

\* Every GenIndex call so far was made on a mesh whose vertex count is
\* divisible by 3.
GenIndexOnTriangles ==
    \A i \in 1..Len(hist) :
        hist[i].op = "GenIndex" => Len(hist[i].before.verts) % 3 = 0

\* C2 amended: after any sequence of these calls every index is below the
\* number of vertices, and the length of the index sequence is divisible by
\* 3 provided every GenIndex call was made on a mesh whose vertex count is
\* divisible by 3 (GenIndex makes exactly one index per vertex).
C2_Invariant ==
    /\ IndicesInRange(mesh)
    /\ GenIndexOnTriangles => MeshInvariant(mesh)
    /\ LastOp("GenIndex") => Len(mesh.idx) = Len(mesh.verts)

\* C2 witness: three operations, Append and GenIndex among them, ending in
\* an indexed mesh of two triangles.
C2_Witness ==
    /\ Len(hist) = MaxOps /\ failure = "none"
    /\ GenIndexOnTriangles
    /\ \E i \in 1..Len(hist) : hist[i].op = "Append"
    /\ \E i \in 1..Len(hist) : hist[i].op = "GenIndex"
    /\ Len(mesh.idx) = 6 /\ Len(mesh.verts) = 6

\* Exactly one of the receiver and the argument of Append is indexed.
MixedIndexing(m, o) == (m.idx = <<>>) # (o.idx = <<>>)

\* C5 as stated: Append is a contract violation, nothing appended, whenever
\* exactly one of the receiver and other has a non-empty index sequence, also
\* when one of them has no vertices.
C5_Original ==
    (LastOp("Append") /\ MixedIndexing(Last.before, other)) =>
        (failure = "ASSERT" /\ mesh = Last.before)

\* C5 amended: Append is a contract violation, nothing appended, exactly when
\* both meshes have vertices and exactly one of them has a non-empty index
\* sequence; when the receiver or other has no vertices the call goes
\* through.
C5_AppendContract ==
    LastOp("Append") =>
        /\ (failure = "ASSERT") <=>
              /\ Last.before.verts # <<>>
              /\ other.verts # <<>>
              /\ MixedIndexing(Last.before, other)
        /\ failure = "ASSERT" => mesh = Last.before
        /\ failure # "ASSERT" => mesh = AppendOp(Last.before, other)

\* C5 witness: an indexed mesh with vertices was appended to an unindexed
\* mesh with vertices, and the call failed.
C5_Witness ==
    /\ LastOp("Append") /\ failure = "ASSERT"
    /\ Last.before.verts # <<>> /\ Last.before.idx = <<>>
    /\ other.verts # <<>> /\ other.idx # <<>>

\* C6: NormalizeTriangleOrientation on a mesh whose index count is divisible
\* by 3 succeeds; afterwards every triangle has non-negative signed area,
\* only the second and third index of a triangle may have been exchanged
\* (vertices untouched), and a second call changes nothing.
C6_Normalize ==
    LastOp("NormalizeTriangleOrientation") =>
        /\ (failure = "none") <=> (Len(Last.before.idx) % 3 = 0)
        /\ failure = "none" =>
              /\ \A k \in TriangleStarts(mesh.idx) :
                    ~Negative(TriangleArea2(Positions(mesh.verts), mesh.idx, k))
              /\ SameUpToWinding(Last.before.idx, mesh.idx)
              /\ mesh.verts = Last.before.verts
              /\ LastOps("NormalizeTriangleOrientation",
                         "NormalizeTriangleOrientation") =>
                    mesh.idx = Last.before.idx

\* C6 witness: the first of two consecutive calls exchanged indices, the
\* second was applied to its result.
C6_Witness ==
    /\ LastOps("NormalizeTriangleOrientation", "NormalizeTriangleOrientation")
    /\ failure = "none"
    /\ hist[Len(hist) - 1].before.idx # Last.before.idx
    /\ mesh.idx = Last.before.idx

\* C10: Deindex then GenIndex on an indexed mesh with vertices V and indices
\* I gives |I| vertices and |I| indices, and the vertex the new index k
\* refers to is V[I[k]]; Deindex on a mesh with no indices changes nothing.
C10_DeindexGenIndex ==
    /\ LastOps("Deindex", "GenIndex") /\ hist[Len(hist) - 1].before.idx # <<>> =>
          LET b == hist[Len(hist) - 1].before
          IN /\ Len(mesh.verts) = Len(b.idx)
             /\ Len(mesh.idx) = Len(b.idx)
             /\ \A k \in 1..Len(b.idx) :
                   mesh.verts[mesh.idx[k] + 1] = b.verts[b.idx[k] + 1]
    /\ LastOp("Deindex") /\ Last.before.idx = <<>> => mesh = Last.before

\* C10 witness: the round trip was made on a mesh whose triangle shares a
\* vertex between two corners and leaves a vertex unused.
C10_Witness ==
    /\ LastOps("Deindex", "GenIndex")
    /\ hist[Len(hist) - 1].before.idx = <<2, 0, 2>>
    /\ Len(hist[Len(hist) - 1].before.verts) = 3
    /\ Len(mesh.verts) = 3 /\ mesh.idx = <<0, 1, 2>>
    /\ mesh.verts[1] = mesh.verts[3]

(***************************************************************************)
(* Properties of the OptimizedMesh, checked under SpecWide.                *)
(***************************************************************************)
\* The OptimizedMesh has just been constructed.
FreshlyBuilt == LastOp("OptimizedMesh") /\ failure = "none"

\* C3 as stated: the 16-bit variant is populated for every source mesh of
\* fewer than 65536 vertices (65535 included), the 32-bit variant for 65536
\* or more; the stored indices are the source's up to winding swaps.
C3_Original ==
    FreshlyBuilt =>
        /\ Len(mesh.verts) < 65536 => om.idx_.width = 16
        /\ Len(mesh.verts) >= 65536 => om.idx_.width = 32
        /\ SameUpToWinding(mesh.idx, om.idx_.v)

\* C3 amended: the 16-bit variant is populated for every source mesh of
\* fewer than 65535 vertices, the 32-bit variant for 65535 or more (kMax16
\* is 65535, and the test is verts.size() < kMax16); in both cases the stored
\* indices are the source's up to winding swaps, and one variant is held.
C3_IndexWidth ==
    FreshlyBuilt =>
        /\ Len(mesh.verts) < 65535 => om.idx_.width = 16
        /\ Len(mesh.verts) >= 65535 => om.idx_.width = 32
        /\ om.idx_.width \in {16, 32}
        /\ SameUpToWinding(mesh.idx, om.idx_.v)

\* C3 witness: a mesh of exactly 65535 vertices was packed with 32-bit
\* indices, both of its triangles rewound.
C3_Witness ==
    /\ FreshlyBuilt
    /\ Len(mesh.verts) = 65535
    /\ om.idx_.width = 32
    /\ om.idx_.v = <<0, 1, 2, 65534, 65532, 65533>>

\* C4: for an OptimizedMesh built from 65536 or more vertices every call of
\* Index16, whatever calls came before, fails and returns no buffer.
C4_Original ==
    (Len(mesh.verts) >= 65536 /\ LastOp("Index16")) =>
        (failure = "RUNTIME_ERROR" /\ ret = NoResult)

\* C7: after construction every triangle of the stored index buffer has
\* non-negative signed area on the unpacked positions, whatever its winding
\* in the source; the source mesh is as it was.
C7_PackedWinding ==
    FreshlyBuilt =>
        /\ \A k \in TriangleStarts(om.idx_.v) :
              ~Negative(TriangleArea2(UnpackedPositions(om.verts), om.idx_.v, k))
        /\ mesh = Last.source

\* C7 witness: a triangle of signed area zero in the source became negative
\* by quantization and was rewound.
C7_Witness ==
    /\ FreshlyBuilt
    /\ Len(mesh.idx) = 3
    /\ TriangleArea2(Positions(mesh.verts), mesh.idx, 1) = RInt(0)
    /\ Negative(TriangleArea2(UnpackedPositions(om.verts), mesh.idx, 1))
    /\ om.idx_.v # mesh.idx

\* C8: ToMesh on a constructed OptimizedMesh that still holds its vertices
\* returns a Raw Mesh with the source's vertex count and index count, whose
\* triangles refer to the source triangles' vertices, second and third
\* possibly exchanged; for the 16-bit and the 32-bit variant.
C8_RoundTrip ==
    (LastOp("ToMesh") /\ PackedSize(Last.before.verts) > 0) =>
        /\ ret.kind = "Mesh"
        /\ Len(ret.value.verts) = Len(mesh.verts)
        /\ Len(ret.value.idx) = Len(mesh.idx)
        /\ SameUpToWinding(mesh.idx, ret.value.idx)
        /\ ret.value.idx = om.idx_.v

\* C8 witness: the round trip of a mesh packed with 32-bit indices.
C8_Witness ==
    /\ LastOp("ToMesh")
    /\ om.idx_.width = 32
    /\ Len(ret.value.verts) = 65536
    /\ ret.value.idx = <<0, 1, 2, 65535, 65534, 65533>>

\* The members ClearCpuMemoryVerts keeps.
SameMetadata(a, b) ==
    /\ a.type = b.type
    /\ a.color = b.color
    /\ a.mul_color_modifier = b.mul_color_modifier
    /\ a.add_color_modifier = b.add_color_modifier
    /\ a.texture = b.texture
    /\ a.object_matrix = b.object_matrix

\* C9 as stated: ClearCpuMemoryVerts leaves shader type, base colour, colour
\* modifiers, texture, object matrix and the index data (IndexSize, every
\* IndexAt, the variant populated) as they were.
C9_Original ==
    LastOp("ClearCpuMemoryVerts") =>
        /\ SameMetadata(Last.before, om)
        /\ IndexSizeOp(om) = IndexSizeOp(Last.before)
        /\ \A n \in 0..(IndexSizeOp(Last.before) - 1) :
              IndexAtOp(om, n) = IndexAtOp(Last.before, n)
        /\ om.idx_.width = Last.before.idx_.width

\* C9 amended: ClearCpuMemoryVerts leaves shader type, base colour, colour
\* modifiers, texture and object matrix as they were; it discards the packed
\* vertex buffer and the index data as well: IndexSize() is 0 afterwards.
C9_ClearKeepsMetadata ==
    LastOp("ClearCpuMemoryVerts") =>
        /\ SameMetadata(Last.before, om)
        /\ om.mbr = Last.before.mbr
        /\ PackedSize(om.verts) = 0
        /\ IndexSizeOp(om) = 0

\* C9 witness: a textured mesh with vertices and indices was cleared.
C9_Witness ==
    /\ LastOp("ClearCpuMemoryVerts")
    /\ Last.before.texture # NoTexture
    /\ PackedSize(Last.before.verts) = 3
    /\ IndexSizeOp(Last.before) = 3

\* Whether the constructor call of this run was given a malformed input: a
\* mesh of no vertices, an index count that is nonzero and not divisible by
\* 3, or an explicit envelope that does not contain the mesh's own.
MalformedInput ==
    \/ mesh.verts = <<>>
    \/ (Len(mesh.idx) # 0 /\ Len(mesh.idx) % 3 # 0)
    \/ /\ args.envelope # "own"
       /\ ~RectContains(EnvelopeArg(args.envelope, mesh), Envelope(mesh.verts))

\* C11 as stated: construction from a malformed input signals a contract
\* failure (EXPECT or ASSERT) and returns no OptimizedMesh; every
\* OptimizedMesh that was constructed has an index count divisible by 3.
C11_Original ==
    LastOp("OptimizedMesh") =>
        /\ MalformedInput =>
              (failure \in {"EXPECT", "ASSERT"} /\ om = NoOptimizedMesh)
        /\ failure = "none" => IndexSizeOp(om) % 3 = 0

\* C12 as stated: the copy of a constructed OptimizedMesh has the same
\* shader type, packed vertices, index buffer and variant, object matrix,
\* colours and modifiers, and its WorldBounds() equals the original's.
C12_Original ==
    LastOp("Copy") =>
        /\ SameMetadata(Last.before, om)
        /\ om.verts = Last.before.verts
        /\ om.idx_ = Last.before.idx_
        /\ WorldBoundsOp(om) = WorldBoundsOp(Last.before)

====
